---------------------------- MODULE Spec2Model ----------------------------
(***************************************************************************)
(* Model of pateddamiano/legacy_game:                                      *)
(*   scripts/background_segmenter.py   segment_background                  *)
(*   MINI GAME/python_server.py        GameHTTPRequestHandler              *)
(*                                                                         *)
(* The segmenter is modelled statement by statement at the points where it *)
(* touches the file system (makedirs, Image.open, resize, each tile save,  *)
(* the metadata dump); the output directory is part of the state so that   *)
(* several runs on the same directory can be followed.  The server is      *)
(* modelled one request at a time over a working directory whose files may *)
(* appear and disappear between requests.                                  *)
(***************************************************************************)
EXTENDS Integers, Sequences, FiniteSets, TLC

VARIABLES
    \* ---- segment_background: position, parameters and locals ----
    pc,               \* "idle" | "loop" | "save" | "done" | "failed"
    runs,             \* number of calls of segment_background so far
    allCompleted,     \* none of them has ended in an exception
    original_width,   \* img.size[0]                        (line 27)
    original_height,  \* img.size[1]                        (line 27)
    segment_width,    \* parameter                          (line 11)
    game_height,      \* parameter                          (line 11)
    scaled_width,     \* line 35
    num_segments,     \* line 45
    i,                \* loop variable of line 60
    metadata,         \* the dict of lines 49-57, segments appended at line 81
    err,              \* the call whose exception ended the run, else "none"
    \* ---- the output directory ----
    dirExists,        \* output_dir exists                  (line 23)
    tiles,            \* index |-> content of segment_<index>.png
    metaFile,         \* <<>> when metadata.json is absent, else <<content>>
    written,          \* the files this run has written so far, in order
    \* ---- GameHTTPRequestHandler ----
    present,          \* the files of the server's working directory
    request,          \* path of the last GET request
    response          \* what the last GET request was answered with

segVars == <<pc, runs, allCompleted, original_width, original_height, segment_width,
             game_height, scaled_width, num_segments, i, metadata, err,
             dirExists, tiles, metaFile, written>>
srvVars == <<present, request, response>>
vars == <<segVars, srvVars>>

---------------------------------------------------------------------------
(* Bounds of the model *)

\* source image widths 1..MaxW, heights 1..MaxH, target heights 1..MaxT and
\* tile widths 1..MaxS of the single-run specification
MaxW == 11
MaxH == 11
MaxT == 15
MaxS == 3
\* the same for the specification that runs the segmenter several times on
\* one output directory
RerunMaxW == 3
RerunMaxH == 2
RerunMaxT == 1
RerunMaxS == 1
MaxRuns == 2

---------------------------------------------------------------------------
(* Arithmetic of lines 34-35:                                              *)
(*     scale_factor = game_height / original_height     (double division)  *)
(*     scaled_width = int(original_width * scale_factor)                   *)
(* Both operations round to the nearest double (53-bit significand, ties   *)
(* to even), and int() truncates.  The operators below compute that result *)
(* in integers.  Write r = T/H, f = fl(r) and Q = W*T/H.                   *)
(*  - If H does not divide W*T, Q is at least 1/H away from every integer, *)
(*    far more than the two rounding errors (relative 2^-52) for operands  *)
(*    below 2^20, so int() yields floor(Q).                                *)
(*  - If H divides W*T, the product W*f lies just below, at or just above  *)
(*    the integer Q according to the sign of the division's rounding       *)
(*    error, and the multiplication rounds it back to Q or to the double   *)
(*    just below Q, which int() truncates to Q-1 (11 * (15/11) = 14.99..). *)
(***************************************************************************)

RECURSIVE Pow2(_)
Pow2(k) == IF k <= 0 THEN 1 ELSE 2 * Pow2(k - 1)

\* floor(log2(x)) for x >= 1
RECURSIVE FloorLog2(_)
FloorLog2(x) == IF x < 2 THEN 0 ELSE 1 + FloorLog2(x \div 2)

\* the least j with 2^j * t >= h
RECURSIVE ShiftsToReach(_, _)
ShiftsToReach(t, h) == IF t >= h THEN 0 ELSE 1 + ShiftsToReach(2 * t, h)

\* the binary exponent a of T/H: 2^a <= T/H < 2^(a+1)
Exponent(T, H) == IF T >= H THEN FloorLog2(T \div H) ELSE 0 - ShiftsToReach(T, H)

\* (x * 2^n) mod m
RECURSIVE DoubleMod(_, _, _)
DoubleMod(x, n, m) == IF n <= 0 THEN x % m ELSE DoubleMod((2 * x) % m, n - 1, m)

\* The rounding error of scale_factor = fl(T/H), as the integer d with
\* fl(T/H) = (T * 2^n + d) / (H * 2^n), n = 52 - Exponent(T, H): the 53-bit
\* significand is T * 2^n / H rounded to the nearest integer, ties to even.
DivisionError(T, H) ==
    LET n    == 52 - Exponent(T, H)
        y    == DoubleMod(T % (2 * H), n, 2 * H)
        rem  == y % H
        odd  == y >= H
    IN  IF 2 * rem < H \/ (2 * rem = H /\ ~odd) THEN 0 - rem ELSE H - rem

\* int(W * fl(T/H)) when H divides W*T: Q, or Q-1 when the product rounds to
\* the double just below Q.
ExactCaseWidth(W, H, T) ==
    LET Q == (W * T) \div H
        d == DivisionError(T, H)
        e == FloorLog2(Q)
        k == e - Exponent(T, H) - (IF Q = Pow2(e) THEN 1 ELSE 0)
    IN  IF d >= 0 \/ 2 * W * (0 - d) <= H * Pow2(k) THEN Q ELSE Q - 1

\* lines 34-35
ScaledWidth(W, H, T) ==
    IF (W * T) % H # 0 THEN (W * T) \div H ELSE ExactCaseWidth(W, H, T)

NumSegmentsFloor(sw, S) == sw \div S
NumSegmentsExtra(sw, S) == sw \div S + 1

\* line 45
NumSegments(sw, S) == (sw + S - 1) \div S

Min(a, b) == IF a <= b THEN a ELSE b

\* line 61
Left(idx, S) == idx * S

RightUnclamped(left, S, sw) == left + S

\* line 62
Right(left, S, sw) == Min(left + S, sw)

SegmentInfoWidthIsRight(idx, left, right, scaled_height) ==
    [index |-> idx, width |-> right, height |-> scaled_height,
     x_offset |-> left, x_position |-> left]

SegmentInfoShifted(idx, left, right, scaled_height) ==
    [index |-> idx, width |-> right - left, height |-> scaled_height,
     x_offset |-> left, x_position |-> right]

\* lines 73-80; the filename segment_<index:03d>.png is determined by index
SegmentInfo(idx, left, right, scaled_height) ==
    [index |-> idx, width |-> right - left, height |-> scaled_height,
     x_offset |-> left, x_position |-> left]

\* lines 49-57; scale_factor is the double nearest to the ratio kept here
Metadata(W, H, S, T, sw, n) ==
    [original_dimensions |-> <<W, H>>,
     scaled_dimensions   |-> <<sw, T>>,
     segment_width       |-> S,
     game_height         |-> T,
     scale_factor        |-> <<T, H>>,
     num_segments        |-> n,
     segments            |-> <<>>]

\* the value of `metadata` before line 49 is reached
NoMetadata == Metadata(0, 0, 0, 0, 0, 0)

---------------------------------------------------------------------------
(* segment_background *)

Outcomes == {"ok", "makedirs_fails", "unreadable"}

\* segment_background can be called: no call is in progress
CanStart(maxRuns) == pc \in {"idle", "done", "failed"} /\ runs < maxRuns

\* lines 23-57: makedirs, Image.open, the scaling arithmetic, resize, the
\* number of segments and the metadata dict.  Pillow's resize raises
\* ValueError("height and width must be > 0") for a width of 0.
Begin(W, H, T, S, outcome) ==
    /\ runs' = runs + 1
    /\ segment_width' = S /\ game_height' = T
    /\ i' = 0
    /\ written' = <<>>
    /\ UNCHANGED <<tiles, metaFile>>
    /\ \/ /\ outcome = "makedirs_fails"
          /\ ~dirExists
          /\ pc' = "failed" /\ err' = "makedirs"
          /\ original_width' = 0 /\ original_height' = 0
          /\ scaled_width' = 0 /\ num_segments' = 0 /\ metadata' = NoMetadata
          /\ UNCHANGED dirExists
       \/ /\ outcome = "unreadable"
          /\ dirExists' = TRUE
          /\ pc' = "failed" /\ err' = "Image.open"
          /\ original_width' = 0 /\ original_height' = 0
          /\ scaled_width' = 0 /\ num_segments' = 0 /\ metadata' = NoMetadata
       \/ /\ outcome = "ok"
          /\ dirExists' = TRUE
          /\ original_width' = W /\ original_height' = H
          /\ scaled_width' = ScaledWidth(W, H, T)
          /\ IF scaled_width' < 1
                THEN /\ pc' = "failed" /\ err' = "resize"
                     /\ num_segments' = 0 /\ metadata' = NoMetadata
                ELSE /\ num_segments' = NumSegments(scaled_width', S)
                     /\ metadata' = Metadata(W, H, S, T, scaled_width', num_segments')
                     /\ err' = "none"
                     /\ pc' = IF num_segments' > 0 THEN "loop" ELSE "save"
    /\ allCompleted' = (allCompleted /\ pc' # "failed")
    /\ UNCHANGED srvVars

TileFile(w, h) == [complete |-> TRUE, width |-> w, height |-> h, run |-> runs]
PartialFile == [complete |-> FALSE, width |-> 0, height |-> 0, run |-> runs]

Put(f, k, v) == [x \in DOMAIN f \cup {k} |-> IF x = k THEN v ELSE f[x]]

\* lines 61-83: one iteration of the loop, the tile saved
SaveSegment ==
    /\ pc = "loop"
    /\ LET left  == Left(i, segment_width)
           right == Right(left, segment_width, scaled_width)
       IN  /\ tiles' = Put(tiles, i, TileFile(right - left, game_height))
           /\ metadata' = [metadata EXCEPT !.segments =
                  Append(@, SegmentInfo(i, left, right, game_height))]
    /\ written' = Append(written, [kind |-> "tile", index |-> i])
    /\ i' = i + 1
    /\ pc' = IF i + 1 < num_segments THEN "loop" ELSE "save"
    /\ UNCHANGED <<runs, allCompleted, original_width, original_height, segment_width,
                   game_height, scaled_width, num_segments, err, dirExists,
                   metaFile>>
    /\ UNCHANGED srvVars

\* line 70 raising: the file is left as it was, or left incomplete
SaveSegmentFails ==
    /\ pc = "loop"
    /\ \/ tiles' = tiles
       \/ tiles' = Put(tiles, i, PartialFile)
    /\ pc' = "failed" /\ err' = "segment.save"
    /\ allCompleted' = FALSE
    /\ UNCHANGED <<runs, original_width, original_height, segment_width,
                   game_height, scaled_width, num_segments, i, metadata,
                   dirExists, metaFile, written>>
    /\ UNCHANGED srvVars

SaveMetadataInLoop ==
    /\ pc \in {"loop", "save"}
    /\ metaFile' = <<[complete |-> TRUE, run |-> runs, data |-> metadata]>>
    /\ written' = Append(written, [kind |-> "metadata", index |-> 0])
    /\ pc' = IF pc = "save" THEN "done" ELSE "loop"
    /\ UNCHANGED <<runs, allCompleted, original_width, original_height, segment_width,
                   game_height, scaled_width, num_segments, i, metadata, err,
                   dirExists, tiles>>
    /\ UNCHANGED srvVars

\* lines 86-94
SaveMetadata ==
    /\ pc = "save"
    /\ metaFile' = <<[complete |-> TRUE, run |-> runs, data |-> metadata]>>
    /\ written' = Append(written, [kind |-> "metadata", index |-> 0])
    /\ pc' = "done"
    /\ UNCHANGED <<runs, allCompleted, original_width, original_height, segment_width,
                   game_height, scaled_width, num_segments, i, metadata, err,
                   dirExists, tiles>>
    /\ UNCHANGED srvVars

\* lines 87-88 raising: open() failed and the file is as it was, or the
\* file was truncated by open() and the dump did not finish
SaveMetadataFails ==
    /\ pc = "save"
    /\ \/ metaFile' = metaFile
       \/ metaFile' = <<[complete |-> FALSE, run |-> runs, data |-> NoMetadata]>>
    /\ pc' = "failed" /\ err' = "json.dump"
    /\ allCompleted' = FALSE
    /\ UNCHANGED <<runs, original_width, original_height, segment_width,
                   game_height, scaled_width, num_segments, i, metadata,
                   dirExists, tiles, written>>
    /\ UNCHANGED srvVars

---------------------------------------------------------------------------
(* GameHTTPRequestHandler *)

Launcher == "game-launcher.html"

\* the files the working directory may hold
Files == {"localhost-game.html", Launcher, "index.html",
          "first-off-game.js", "sprite.png"}

\* the routes of do_GET that name a file
FileRoutes == {"/", "/game", "/original"}
JsonRoutes == {"/health", "/api/stats"}
StaticPaths == {"/localhost-game.html", "/game-launcher.html", "/index.html",
                "/first-off-game.js", "/sprite.png"}
Paths == FileRoutes \cup JsonRoutes \cup StaticPaths

\* lines 42-47: the file each route names
RouteFile(path) ==
    CASE path = "/"         -> "localhost-game.html"
      [] path = "/game"     -> Launcher
      [] path = "/original" -> "index.html"

\* the file a static path translates to, relative to the working directory
StaticFile(path) ==
    CASE path = "/localhost-game.html" -> "localhost-game.html"
      [] path = "/game-launcher.html"  -> Launcher
      [] path = "/index.html"          -> "index.html"
      [] path = "/first-off-game.js"   -> "first-off-game.js"
      [] path = "/sprite.png"          -> "sprite.png"

\* the path of a file, '/' + filename (lines 71, 75)
PathOf(filename) == CHOOSE p \in StaticPaths : StaticFile(p) = filename

File200(filename) == [status |-> 200, kind |-> "file", body |-> filename]
NotFound404 == [status |-> 404, kind |-> "error", body |-> "File not found"]
Error500 == [status |-> 500, kind |-> "error", body |-> "Server error"]
Json200(name) == [status |-> 200, kind |-> "json", body |-> name]
\* an exception nothing catches: the connection ends without a response
Aborted == [status |-> 0, kind |-> "aborted", body |-> ""]

\* SimpleHTTPRequestHandler.do_GET as called at lines 65, 72, 76: the file
\* of self.path, or 404 when it cannot be opened
SuperDoGet(path) ==
    IF StaticFile(path) \in present THEN File200(StaticFile(path))
    ELSE NotFound404

ServeFileNoFallback(filename, raises) ==
    IF raises THEN Error500 ELSE SuperDoGet(PathOf(filename))

\* lines 67-78
ServeFile(filename, raises) ==
    IF raises THEN Error500
    ELSE IF filename \in present THEN SuperDoGet(PathOf(filename))
    ELSE SuperDoGet("/game-launcher.html")

\* lines 36-65; `raises`: an exception is raised while the answer is sent
DoGet(path, raises) ==
    /\ request' = path
    /\ response' =
         CASE path \in FileRoutes    -> ServeFile(RouteFile(path), raises)
           [] path = "/health"       -> IF raises THEN Aborted ELSE Json200("health")
           [] path = "/api/stats"    -> IF raises THEN Aborted ELSE Json200("stats")
           [] OTHER                  -> IF raises THEN Aborted ELSE SuperDoGet(path)
    /\ UNCHANGED present
    /\ UNCHANGED segVars

\* the working directory changes between requests
CreateFile(f) ==
    /\ f \notin present
    /\ present' = present \cup {f}
    /\ UNCHANGED <<request, response>>
    /\ UNCHANGED segVars

DeleteFile(f) ==
    /\ f \in present
    /\ present' = present \ {f}
    /\ UNCHANGED <<request, response>>
    /\ UNCHANGED segVars

---------------------------------------------------------------------------
(* Specifications *)

SegInit ==
    /\ pc = "idle" /\ runs = 0 /\ allCompleted = TRUE
    /\ original_width = 0 /\ original_height = 0
    /\ segment_width = 0 /\ game_height = 0
    /\ scaled_width = 0 /\ num_segments = 0 /\ i = 0
    /\ metadata = NoMetadata /\ err = "none"
    /\ dirExists = FALSE /\ tiles = <<>> /\ metaFile = <<>> /\ written = <<>>

SrvInit ==
    /\ present = Files
    /\ request = ""
    /\ response = [status |-> 0, kind |-> "none", body |-> ""]

Init == SegInit /\ SrvInit

\* one call of segment_background on a fresh output directory
Next ==
    \/ /\ CanStart(1)
       /\ \E W \in 1..MaxW, H \in 1..MaxH, T \in 1..MaxT, S \in 1..MaxS,
             o \in Outcomes : Begin(W, H, T, S, o)
    \/ SaveSegment
    \/ SaveSegmentFails
    \/ SaveMetadata
    \/ SaveMetadataFails

Spec == Init /\ [][Next]_vars

\* up to MaxRuns calls of segment_background on the same output directory
NextRerun ==
    \/ /\ CanStart(MaxRuns)
       /\ \E W \in 1..RerunMaxW, H \in 1..RerunMaxH, T \in 1..RerunMaxT,
             S \in 1..RerunMaxS, o \in Outcomes : Begin(W, H, T, S, o)
    \/ SaveSegment
    \/ SaveSegmentFails
    \/ SaveMetadata
    \/ SaveMetadataFails

SpecRerun == Init /\ [][NextRerun]_vars

\* the server answering GET requests
NextServer ==
    \/ \E path \in Paths, raises \in BOOLEAN : DoGet(path, raises)
    \/ \E f \in Files : CreateFile(f)
    \/ \E f \in Files : DeleteFile(f)

SpecServer == Init /\ [][NextServer]_vars

---------------------------------------------------------------------------
(* Properties *)

\* the metadata dict exists: lines 49-57 have been executed
Recorded == pc \in {"loop", "save", "done"}

Segs == metadata.segments

RECURSIVE SumWidths(_)
SumWidths(seq) == IF seq = <<>> THEN 0 ELSE Head(seq).width + SumWidths(Tail(seq))

\* C1: in every completed run the widths of the records of
\* metadata['segments'] add up to scaled_dimensions[0].
C1_WidthsSumToScaledWidth ==
    pc = "done" => SumWidths(Segs) = metadata.scaled_dimensions[1]

\* a completed run with several tiles, the last one narrower
C1_Witness ==
    /\ pc = "done"
    /\ Len(Segs) >= 3
    /\ Segs[Len(Segs)].width < segment_width

\* C2: the recorded scaled height is T and the recorded scaled width is
\* W * T / H rounded to the nearest integer (at most 1/2 away from it).
C2_ScaledWidthIsRounded ==
    Recorded =>
        LET sw == metadata.scaled_dimensions[1]
            d  == 2 * (sw * original_height - original_width * game_height)
        IN  /\ metadata.scaled_dimensions[2] = game_height
            /\ d <= original_height
            /\ 0 - d <= original_height

\* C3: num_segments is the ceiling of scaled_width / tile_width (the least n
\* with n * tile_width >= scaled_width), exact multiples included, and a
\* completed run has recorded num_segments segments.
C3_NumSegmentsIsCeiling ==
    /\ Recorded =>
          /\ num_segments * segment_width >= scaled_width
          /\ (num_segments - 1) * segment_width < scaled_width
          /\ metadata.num_segments = num_segments
    /\ pc = "done" => Len(Segs) = num_segments

\* a completed run whose scaled width is an exact multiple of the tile width
C3_Witness ==
    /\ pc = "done"
    /\ scaled_width = 2 * segment_width
    /\ num_segments = 2
    /\ Len(Segs) = 2

\* C4 as claimed: every run on a readable source with W, H, T, S >= 1 whose
\* writes succeed completes with num_segments >= 1.
C4_AlwaysAtLeastOneTile ==
    (pc \in {"done", "failed"} /\ err \notin {"makedirs", "Image.open",
                                              "segment.save", "json.dump"})
        => (pc = "done" /\ num_segments >= 1)

\* C4 as amended: whenever the scaled width int(W * (T/H)) is at least 1 the
\* run records num_segments >= 1 and, once completed, has written tile 0;
\* a scaled width of 0 ends the run in resize with no tile and no metadata.
C4_TileUnlessScaledWidthZero ==
    /\ Recorded => (scaled_width >= 1 /\ num_segments >= 1)
    /\ pc = "done" => (Len(Segs) >= 1 /\ 0 \in DOMAIN tiles)
    /\ (pc = "failed" /\ err = "resize") =>
          /\ scaled_width = 0
          /\ original_width * game_height <= original_height
          /\ written = <<>>
          /\ metadata = NoMetadata

\* a completed run whose scaled width is below the tile width
C4_Witness ==
    /\ pc = "done"
    /\ scaled_width < segment_width
    /\ num_segments = 1

\* C5: in a completed run every tile but the last is tile_width wide, the
\* last is scaled_width - (num_segments-1)*tile_width wide, which is in
\* (0, tile_width], and every tile is scaled_height high.
C5_TileWidths ==
    pc = "done" =>
        \A k \in 1..Len(Segs) :
            /\ Segs[k].height = metadata.scaled_dimensions[2]
            /\ k < num_segments => Segs[k].width = segment_width
            /\ k = num_segments =>
                  /\ Segs[k].width = scaled_width - (num_segments - 1) * segment_width
                  /\ Segs[k].width > 0
                  /\ Segs[k].width <= segment_width

\* a completed run of two tiles, the last one narrower than the first
C5_Witness ==
    /\ pc = "done"
    /\ Len(Segs) = 2
    /\ Segs[1].width = segment_width
    /\ Segs[2].width < segment_width

\* C6: the record at position p of 'segments' has index p, and x_offset and
\* x_position both equal to p * tile_width.
C6_IndexAndOffsets ==
    Recorded =>
        \A k \in 1..Len(Segs) :
            /\ Segs[k].index = k - 1
            /\ Segs[k].x_offset = (k - 1) * segment_width
            /\ Segs[k].x_position = (k - 1) * segment_width

\* a completed run of at least three tiles wider than one pixel
C6_Witness ==
    /\ pc = "done"
    /\ Len(Segs) >= 3
    /\ segment_width >= 2
    /\ Segs[3].x_position = 2 * segment_width

\* C7: after a sequence of completed runs on the same output directory the
\* segment files present are exactly the tiles of the most recent run.
C7_NoStaleTiles ==
    (pc = "done" /\ allCompleted) => DOMAIN tiles = 0..(num_segments - 1)

\* metadata.json describes the tile files that are present
MetaDescribesTiles ==
    /\ metaFile[1].complete
    /\ metaFile[1].run = runs
    /\ DOMAIN tiles = 0..(metaFile[1].data.num_segments - 1)
    /\ \A k \in DOMAIN tiles :
          /\ tiles[k].complete
          /\ tiles[k].run = runs
          /\ tiles[k].width = metaFile[1].data.segments[k + 1].width

\* C8: a run that fails because the source is unreadable or a tile cannot
\* be written leaves no metadata.json, so that after any run a metadata.json
\* that exists means the run completed and describes the tiles present.
C8_MetadataMeansCompleted ==
    LET failedAsClaimed == pc = "failed" /\ err \in {"Image.open", "segment.save"}
    IN  /\ failedAsClaimed => metaFile = <<>>
        /\ ((pc = "done" \/ failedAsClaimed) /\ metaFile # <<>>) =>
              (pc = "done" /\ MetaDescribesTiles)

\* a step that answers a GET request, and one answered without an exception
GetStep == present' = present /\ <<request, response>>' # <<request, response>>
Answered == response'.kind \in {"file", "error"} /\ response'.status # 500

\* C9 as claimed: a GET of a path that is no route, whose file is absent, is
\* answered with game-launcher.html (taken to be present), and so is a file
\* route whose file is missing.
C9_FallbackForEveryPath ==
    [][(GetStep /\ Answered /\ Launcher \in present) =>
         /\ (request' \in StaticPaths /\ StaticFile(request') \notin present)
                => response' = File200(Launcher)
         /\ (request' \in FileRoutes /\ RouteFile(request') \notin present)
                => response' = File200(Launcher)]_vars

\* C9 as amended: a path that is no route is looked up in the working
\* directory and answered with the file, or with 404 when it is absent (no
\* fallback); a file route whose file is missing is answered with
\* game-launcher.html when that file exists and with 404 when it does not;
\* an exception while a file route is served is answered with 500.
C9_FallbackForRoutesOnly ==
    [][(GetStep /\ response'.kind \in {"file", "error"}) =>
         /\ request' \in StaticPaths =>
               /\ response'.status = (IF StaticFile(request') \in present
                                        THEN 200 ELSE 404)
               /\ response'.status = 200 => response'.body = StaticFile(request')
         /\ (request' \in FileRoutes /\ response'.status # 500) =>
               /\ response'.status = (IF {RouteFile(request'), Launcher} \cap present # {}
                                        THEN 200 ELSE 404)
               /\ response'.status = 200 =>
                     response'.body = (IF RouteFile(request') \in present
                                         THEN RouteFile(request') ELSE Launcher)]_vars

\* the route '/original' answered with game-launcher.html because index.html
\* is missing
C9_Witness ==
    /\ request = "/original"
    /\ "index.html" \notin present
    /\ response = File200(Launcher)

\* C10: within a run the tile files are written in the order 0, 1, ...,
\* metadata.json is written at most once and only after all num_segments
\* tiles, and a failed run has written nothing after the failing call.
WrittenInOrder ==
    \A k \in 1..Len(written) :
        IF written[k].kind = "tile"
            THEN written[k].index = k - 1 /\ k <= num_segments
            ELSE k = num_segments + 1 /\ k = Len(written)

C10_TilesInOrderThenMetadata ==
    /\ [](/\ WrittenInOrder
          /\ pc = "done" => Len(written) = num_segments + 1
          /\ pc \in {"loop", "save"} => Len(written) = i
          /\ (pc = "failed" /\ err = "segment.save") =>
                (Len(written) = i /\ i < num_segments)
          /\ (pc = "failed" /\ err = "json.dump") => Len(written) = num_segments
          /\ (pc = "failed" /\ err \in {"makedirs", "Image.open", "resize"}) =>
                written = <<>>)
    /\ [][(pc = "failed" /\ runs' = runs) =>
              UNCHANGED <<tiles, metaFile, written>>]_vars

\* a completed second run that wrote three tiles and then the metadata
C10_Witness ==
    /\ pc = "done"
    /\ runs = 2
    /\ Len(written) = 4
    /\ written[Len(written)].kind = "metadata"

===========================================================================
